---- MODULE Spec2Model ----
(***************************************************************************)
(* Model of src/src/ext/default.c: the default extension of the search     *)
(* engine.  Two parts:                                                     *)
(*   - the token expansion pipeline (SynonymExpander, PhoneticExpander,    *)
(*     StemmerExpander, DefaultExpander and the release of the per-query   *)
(*     stemmer data), specification Spec;                                  *)
(*   - the scorers (TF-IDF, TF-IDF.DOCNORM, BM25, DISMAX, DOCSCORE over a  *)
(*     result tree, specification SpecScore; HAMMING over two payloads,    *)
(*     specification SpecHamming).                                         *)
(* Doubles are modelled as exact fractions <<n, d>>; <<1, 0>> is +inf and  *)
(* <<0, 0>> is NaN (a division by a zero norm).                            *)
(***************************************************************************)
EXTENDS Integers, Sequences, FiniteSets, TLC

VARIABLES
  \* ---- expansion pipeline
  sctx_spec,   \* the index: fields (IsPhonetics per field), flags, smap
  language,    \* ctx->language of the query
  expander,    \* the registered expander the query uses
  privdata,    \* ctx->privdata: the per-query stemmer data
  tokenizer,   \* the ChineseTokenizer member: created or not
  tokens,      \* the tokens vector filled by expandCn
  status,      \* the query's QueryError status
  phase,       \* "expanding", "destroyed" or "crashed"
  nCalls,      \* Expand calls made by the query so far
  counts,      \* StemmerExpander::Expand calls, and how often each library
               \* resource was created, invoked and released
  lastCall,    \* what the latest Expand call did
  \* ---- scorers
  result,      \* the result tree handed to the scorers
  scored,      \* what the latest scoring call returned
  \* ---- Hamming scorer
  docPayload,  \* dmd->payload
  argPayload,  \* args->payload
  hamming      \* what the latest HammingDistanceScorer call returned

vars == <<sctx_spec, language, expander, privdata, tokenizer, tokens, status,
          phase, nCalls, counts, lastCall, result, scored,
          docPayload, argPayload, hamming>>

expVars == <<sctx_spec, language, expander, privdata, tokenizer, tokens,
             status, phase, nCalls, counts, lastCall>>
scoreVars == <<result, scored>>
hamVars == <<docPayload, argPayload, hamming>>

(***************************************************************************)
(* Bounds of the model.                                                    *)
(***************************************************************************)
\* Expand calls per query.
MaxCalls == 2
\* Fields of the index.
NumFields == 2
\* Bits of a field mask (t_fieldMask): one more than the index has fields,
\* so that a mask can name a bit no field has.
MaskWidth == NumFields + 1

(***************************************************************************)
(* Expansion pipeline: values.                                             *)
(***************************************************************************)
REDISMODULE_OK == "REDISMODULE_OK"
REDISMODULE_ERR == "REDISMODULE_ERR"
NoReturn == "none"

PHONETIC_DEFAULT == "PHONETIC_DEFAULT"
PHONETIC_ENABLED == "PHONETIC_ENABLED"
PHONETIC_DESABLED == "PHONETIC_DESABLED"
PhoneticOpts == {PHONETIC_DEFAULT, PHONETIC_ENABLED, PHONETIC_DESABLED}

RS_LANG_CHINESE == "chinese"
\* english: snowball has a stemmer; "unsupported": sb_stemmer_new returns NULL.
Languages == {RS_LANG_CHINESE, "english", "unsupported"}

DEFAULT_EXPANDER_NAME == "DEFAULT"
STEMMER_EXPENDER_NAME == "SBSTEM"

STEM_PREFIX == "+"

\* Token texts: a token is a sequence of characters.
Words == { <<"a">>, <<"s">>, <<"a", "s">>, <<"a", "y">> }

RS_FIELDMASK_ALL == 0 .. (MaskWidth - 1)
FieldMasks == SUBSET (0 .. (MaskWidth - 1))

NullPriv == [alloc |-> FALSE, isCn |-> FALSE, latin |-> 0]

ZeroCounts == [calls |-> 0, sbNew |-> 0, sbStem |-> 0, sbDelete |-> 0,
               tokNew |-> 0, tokStart |-> 0, tokDelete |-> 0,
               alloc |-> 0, free |-> 0]

NoCall == [kind |-> "none", token |-> <<>>, phonetic |-> PHONETIC_DEFAULT,
           fieldMask |-> {}, ret |-> NoReturn, setError |-> FALSE,
           steps |-> <<>>, out |-> <<>>, created |-> FALSE,
           stemHandle |-> 0, stemmed |-> <<>>, gotStem |-> FALSE]

(***************************************************************************)
(* The libraries the expanders call (not code of the repository): small    *)
(* stand-ins with the cases the callers distinguish.                       *)
(***************************************************************************)
\* sb_stemmer_new: a handle (the number of the creation) or NULL (0).
sb_stemmer_new(lang, n) == IF lang = "english" THEN n ELSE 0

\* sb_stemmer_stem's result for a word: a trailing "s" is stripped (the stem
\* is shorter), a trailing "y" becomes "i" (same length, other text), any
\* other word is its own stem.
Stem(w) ==
  IF Len(w) > 1 /\ w[Len(w)] = "s" THEN SubSeq(w, 1, Len(w) - 1)
  ELSE IF Len(w) > 1 /\ w[Len(w)] = "y" THEN SubSeq(w, 1, Len(w) - 1) \o <<"i">>
  ELSE w

\* strncmp(a, b, n) # 0 on NUL-terminated strings.
StrNCmpDiffers(a, b, n) ==
  \E i \in 1 .. n :
     /\ \A j \in 1 .. (i - 1) : j <= Len(a) /\ j <= Len(b) /\ a[j] = b[j]
     /\ \/ (i <= Len(a)) # (i <= Len(b))
        \/ i <= Len(a) /\ i <= Len(b) /\ a[i] # b[i]

\* PhoneticManager::ExpandPhonetics: the primary code, or <<>> for none.
PhoneticPrimary(w) == IF w = <<"s">> THEN <<>> ELSE <<"<", w[1]>>

\* SynonymMap::GetIdsBySynonym: the group ids of a word, <<>> for NULL.
GetIdsBySynonym(w) ==
  IF w = <<"a">> THEN <<"1", "2">>
  ELSE IF w = <<"a", "s">> THEN <<"2">>
  ELSE <<>>

\* SynonymMap::IdToStr: the text of a group id.
IdToStr(id) == <<"~", id>>

\* IndexSpec::CheckPhoneticEnabled(fieldMask).
CheckPhoneticEnabled(fm) ==
  \E ii \in 0 .. (Len(sctx_spec.fields) - 1) : ii \in fm /\ sctx_spec.fields[ii + 1]

\* QueryExpander::ExpandToken: one more token in the expansion of the
\* current token.  by: the expander that added it.
ExpandToken(c, by, str) ==
  [c EXCEPT !.out = Append(@, [by |-> by, str |-> str])]

(***************************************************************************)
(* The expanders.  An expander works on the context c of one Expand call:  *)
(*   out, steps        tokens added and sub-expanders entered, in order    *)
(*   priv, tokenizer, tokens, counts   the per-query data as the call      *)
(*                     leaves them                                         *)
(*   crashed           the call ended in the undefined member call         *)
(*   ret, setError     the value returned and whether status was set       *)
(*   created, stemHandle, stemmed, gotStem   what the stemmer step did     *)
(***************************************************************************)
Ctx0 ==
  [out |-> <<>>, steps |-> <<>>, priv |-> privdata, tokenizer |-> tokenizer,
   tokens |-> tokens, counts |-> counts, crashed |-> FALSE,
   ret |-> NoReturn, setError |-> FALSE, created |-> FALSE,
   stemHandle |-> 0, stemmed |-> <<>>, gotStem |-> FALSE]

Enter(c, step) == [c EXCEPT !.steps = Append(@, step)]

RECURSIVE ExpandIds(_, _, _)
\* The loop of SynonymExpander::Expand over t_data->ids, from index i.
ExpandIds(c, ids, i) ==
  IF i > Len(ids) THEN c
  ELSE ExpandIds(ExpandToken(c, "Synonym", IdToStr(ids[i])), ids, i + 1)

SynonymExpander_Expand(c, token) ==
  LET c1 == Enter(c, "Synonym")
      ids == GetIdsBySynonym(token)
  IN IF ~sctx_spec.smap THEN c1
     ELSE IF ids = <<>> THEN c1
     ELSE ExpandIds(c1, ids, 1)

PhoneticExpander_Expand(c, token) ==
  LET c1 == Enter(c, "Phonetic")
      primary == PhoneticPrimary(token)
  IN IF primary # <<>> THEN ExpandToken(c1, "Phonetic", primary) ELSE c1

\* DefaultExpander::expandCn: the tokenizer is created on first use, the
\* token is segmented (one segment per character here) into the tokens
\* vector, and the vector is added as a phrase.
DefaultExpander_expandCn(c, token) ==
  LET c1 == IF ~c.tokenizer
            THEN [c EXCEPT !.tokenizer = TRUE, !.tokens = <<>>,
                           !.counts.tokNew = @ + 1]
            ELSE c
      c2 == [c1 EXCEPT !.counts.tokStart = @ + 1, !.tokens = @ \o token]
  IN ExpandToken(c2, "Stemmer", c2.tokens)

\* dd->expandCn(token) with dd == NULL (line 393): a member call through a
\* null pointer is undefined; ub chooses between the outcomes: the process
\* crashes on the first member access, or the body runs.
NullExpandCn(c, token, ub) ==
  IF ub = "crash" THEN [c EXCEPT !.crashed = TRUE]
  ELSE DefaultExpander_expandCn(c, token)

\* StemToken with the texts compared by length alone.
StemToken_LengthOnly(c, token, sb, oom) ==
  LET c1 == [c EXCEPT !.counts.sbStem = @ + 1, !.stemHandle = sb]
      stemmed == Stem(token)
      c2 == [c1 EXCEPT !.stemmed = stemmed, !.gotStem = TRUE]
      c3 == ExpandToken(c2, "Stemmer", <<STEM_PREFIX>> \o stemmed)
  IN IF oom THEN c1
     ELSE IF Len(stemmed) # Len(token)
          THEN ExpandToken(c3, "Stemmer", stemmed)
          ELSE c3

\* Lines 415-430: stem the token with the handle sb and add the results.
\* oom: sb_stemmer_stem returns NULL.
StemToken(c, token, sb, oom) ==
  LET c1 == [c EXCEPT !.counts.sbStem = @ + 1, !.stemHandle = sb]
      stemmed == Stem(token)
      sl == Len(stemmed)
      c2 == [c1 EXCEPT !.stemmed = stemmed, !.gotStem = TRUE]
      c3 == ExpandToken(c2, "Stemmer", <<STEM_PREFIX>> \o stemmed)
  IN IF oom THEN c1
     ELSE IF sl # Len(token) \/ StrNCmpDiffers(stemmed, token, Len(token))
          THEN ExpandToken(c3, "Stemmer", SubSeq(stemmed, 1, sl))
          ELSE c3

\* StemmerExpander::Expand without the test of the language.
StemmerExpander_Expand_NoLanguageTest(c, token, ub, oom) ==
  LET c0 == [Enter(c, "Stemmer") EXCEPT !.counts.calls = @ + 1]
      n == c0.counts.sbNew + 1
      c1 == [c0 EXCEPT !.priv = [alloc |-> TRUE, isCn |-> FALSE,
                                 latin |-> sb_stemmer_new("english", n)],
                       !.counts.alloc = @ + 1,
                       !.counts.sbNew = n,
                       !.created = TRUE]
      c2 == IF ~c0.priv.alloc THEN c1 ELSE c0
  IN IF c2.priv.latin = 0 THEN c2
     ELSE StemToken(c2, token, c2.priv.latin, oom)

StemmerExpander_Expand(c, token, ub, oom) ==
  LET c0 == [Enter(c, "Stemmer") EXCEPT !.counts.calls = @ + 1]
      \* lines 396-398: the first call of a non-Chinese query
      n == c0.counts.sbNew + 1
      c1 == [c0 EXCEPT !.priv = [alloc |-> TRUE, isCn |-> FALSE,
                                 latin |-> sb_stemmer_new(language, n)],
                       !.counts.alloc = @ + 1,
                       !.counts.sbNew = n,
                       !.created = TRUE]
      c2 == IF ~c0.priv.alloc THEN c1 ELSE c0
      dd == c2.priv
      sb == dd.latin
  IN IF ~c0.priv.alloc /\ language = RS_LANG_CHINESE
       THEN NullExpandCn(c0, token, ub)
     ELSE IF dd.isCn THEN DefaultExpander_expandCn(c2, token)
     ELSE IF sb = 0 THEN c2
     ELSE StemToken(c2, token, sb, oom)

\* Lines 505-521: is one of the fields of the mask phonetic?
IsValid(fm) ==
  IF fm = RS_FIELDMASK_ALL THEN sctx_spec.hasPhonetic
  ELSE \E ii \in 0 .. (Len(sctx_spec.fields) - 1) :
          ii \in fm /\ sctx_spec.fields[ii + 1]

\* DefaultExpander::Expand with the stemmer run before the phonetic step.
DefaultExpander_Expand_StemmerFirst(c, token, opt, fm, ub, oom) ==
  LET c1 == SynonymExpander_Expand(c, token)
      phonetic == IF opt = PHONETIC_DEFAULT /\ CheckPhoneticEnabled(fm)
                  THEN PHONETIC_ENABLED ELSE opt
      invalid == opt \in {PHONETIC_ENABLED, PHONETIC_DESABLED} /\ ~IsValid(fm)
      c2 == StemmerExpander_Expand(c1, token, ub, oom)
      c3 == IF phonetic = PHONETIC_ENABLED /\ ~c2.crashed
            THEN PhoneticExpander_Expand(c2, token) ELSE c2
  IN IF invalid
       THEN [c1 EXCEPT !.setError = TRUE, !.ret = REDISMODULE_ERR]
     ELSE IF c3.crashed THEN c3
     ELSE [c3 EXCEPT !.ret = REDISMODULE_OK]

\* DefaultExpander::Expand with the default option never checking the index.
DefaultExpander_Expand_NoIndexCheck(c, token, opt, fm, ub, oom) ==
  LET c1 == SynonymExpander_Expand(c, token)
      phonetic == IF opt = PHONETIC_DEFAULT THEN PHONETIC_ENABLED ELSE opt
      invalid == opt \in {PHONETIC_ENABLED, PHONETIC_DESABLED} /\ ~IsValid(fm)
      c2 == IF phonetic = PHONETIC_ENABLED
            THEN PhoneticExpander_Expand(c1, token) ELSE c1
      c3 == StemmerExpander_Expand(c2, token, ub, oom)
  IN IF invalid
       THEN [c1 EXCEPT !.setError = TRUE, !.ret = REDISMODULE_ERR]
     ELSE IF c3.crashed THEN c3
     ELSE [c3 EXCEPT !.ret = REDISMODULE_OK]

DefaultExpander_Expand(c, token, opt, fm, ub, oom) ==
  LET c1 == SynonymExpander_Expand(c, token)
      phonetic == IF opt = PHONETIC_DEFAULT /\ CheckPhoneticEnabled(fm)
                  THEN PHONETIC_ENABLED ELSE opt
      invalid == opt \in {PHONETIC_ENABLED, PHONETIC_DESABLED} /\ ~IsValid(fm)
      c2 == IF phonetic = PHONETIC_ENABLED
            THEN PhoneticExpander_Expand(c1, token) ELSE c1
      c3 == StemmerExpander_Expand(c2, token, ub, oom)
  IN IF invalid
       THEN [c1 EXCEPT !.setError = TRUE, !.ret = REDISMODULE_ERR]
     ELSE IF c3.crashed THEN c3
     ELSE [c3 EXCEPT !.ret = REDISMODULE_OK]

\* The stemmer registered as an expander of its own.
StemmerExpander_Call(c, token, ub, oom) ==
  LET c1 == StemmerExpander_Expand(c, token, ub, oom)
  IN IF c1.crashed THEN c1 ELSE [c1 EXCEPT !.ret = REDISMODULE_OK]

\* StemmerExpanderFree that frees the data and leaves the stemmer alive.
StemmerExpanderFree_KeepsStemmer(p, k) ==
  IF ~p.alloc THEN k ELSE [k EXCEPT !.free = @ + 1]

\* Lines 435-446 (StemmerExpanderFree, called by ~DefaultExpander): the
\* counts after the release of the per-query data p.
StemmerExpanderFree(p, k) ==
  IF ~p.alloc THEN k
  ELSE LET k1 == IF p.isCn THEN [k EXCEPT !.tokDelete = @ + 1]
                 ELSE IF p.latin # 0 THEN [k EXCEPT !.sbDelete = @ + 1]
                 ELSE k
       IN [k1 EXCEPT !.free = @ + 1]

(***************************************************************************)
(* The expansion phase of one query.                                       *)
(***************************************************************************)
InitExp ==
  /\ sctx_spec \in { s \in [fields : [1 .. NumFields -> BOOLEAN],
                            hasPhonetic : BOOLEAN, smap : BOOLEAN] :
                       \* Index_HasPhonetic is set when a phonetic field is added
                       s.hasPhonetic = (\E i \in 1 .. NumFields : s.fields[i]) }
  /\ language \in Languages
  /\ expander \in {DEFAULT_EXPANDER_NAME, STEMMER_EXPENDER_NAME}
  /\ privdata = NullPriv
  /\ tokenizer = FALSE
  /\ tokens = <<>>
  /\ status = "OK"
  /\ phase = "expanding"
  /\ nCalls = 0
  /\ counts = ZeroCounts
  /\ lastCall = NoCall

IdleScore ==
  /\ result = [kind |-> "none"]
  /\ scored = [scorer |-> "none"]

IdleHamming ==
  /\ docPayload = [present |-> FALSE, data |-> <<>>]
  /\ argPayload = <<>>
  /\ hamming = [done |-> FALSE]

Init == InitExp /\ IdleScore /\ IdleHamming

\* What an Expand call that ended in context c leaves behind.
Finish(kind, token, opt, fm, c) ==
  /\ privdata' = c.priv
  /\ tokenizer' = c.tokenizer
  /\ tokens' = c.tokens
  /\ counts' = c.counts
  /\ status' = IF c.setError THEN "QUERY_EINVAL" ELSE status
  /\ phase' = IF c.crashed THEN "crashed" ELSE phase
  /\ nCalls' = nCalls + 1
  /\ lastCall' = [kind |-> kind, token |-> token, phonetic |-> opt,
                  fieldMask |-> fm, ret |-> c.ret, setError |-> c.setError,
                  steps |-> c.steps, out |-> c.out, created |-> c.created,
                  stemHandle |-> c.stemHandle, stemmed |-> c.stemmed,
                  gotStem |-> c.gotStem]
  /\ UNCHANGED <<sctx_spec, language, expander, scoreVars, hamVars>>

\* The outcomes of the undefined call (only a Chinese query makes it) and of
\* sb_stemmer_stem (only a query with a stemmer calls it).
UbOutcomes ==
  IF language = RS_LANG_CHINESE THEN {"crash", "proceed"} ELSE {"proceed"}

OomOutcomes == IF language = "english" THEN BOOLEAN ELSE {FALSE}

\* The query builder expands one token with the default expander.
DefaultExpand ==
  /\ phase = "expanding"
  /\ expander = DEFAULT_EXPANDER_NAME
  /\ nCalls < MaxCalls
  /\ \E token \in Words, opt \in PhoneticOpts, fm \in FieldMasks,
        ub \in UbOutcomes, oom \in OomOutcomes :
       Finish("Default", token, opt, fm,
              DefaultExpander_Expand(Ctx0, token, opt, fm, ub, oom))

\* The query builder expands one token with the stemmer expander.
StemmerExpand ==
  /\ phase = "expanding"
  /\ expander = STEMMER_EXPENDER_NAME
  /\ nCalls < MaxCalls
  /\ \E token \in Words, ub \in UbOutcomes, oom \in OomOutcomes :
       Finish("Stemmer", token, PHONETIC_DEFAULT, {},
              StemmerExpander_Call(Ctx0, token, ub, oom))

\* The expansion phase ends: the expander is destroyed.
Destroy ==
  /\ phase = "expanding"
  /\ counts' = StemmerExpanderFree(privdata, counts)
  /\ phase' = "destroyed"
  /\ UNCHANGED <<sctx_spec, language, expander, privdata, tokenizer, tokens,
                 status, nCalls, lastCall, scoreVars, hamVars>>

Next == DefaultExpand \/ StemmerExpand \/ Destroy

Spec == Init /\ [][Next]_vars

(***************************************************************************)
(* Properties of the expansion pipeline.                                   *)
(***************************************************************************)
\* The tokens the stemmer step of the latest call added, in order.
StemAdded == SelectSeq(lastCall.out, LAMBDA t : t.by = "Stemmer")

Rank(by) == IF by = "Synonym" THEN 1 ELSE IF by = "Phonetic" THEN 2 ELSE 3

\* Does a field selected by the mask support phonetics?
SelectedPhonetic(fm) ==
  \E i \in 1 .. NumFields : (i - 1) \in fm /\ sctx_spec.fields[i]

Forced(opt) == opt \in {PHONETIC_ENABLED, PHONETIC_DESABLED}

\* C1: in every call of DefaultExpander::Expand the sub-expanders run in the
\* order Synonym, Phonetic (never when force-disabled), Stemmer: the steps
\* entered are a prefix-closed choice of that order with the Stemmer last
\* whenever it runs, and the tokens added appear in that order too (no
\* phonetic token before a synonym token, no stemmer token before either).
C1_FixedOrder ==
  lastCall.kind = "Default" =>
    /\ lastCall.steps \in { <<"Synonym">>, <<"Synonym", "Stemmer">>,
                            <<"Synonym", "Phonetic", "Stemmer">> }
    /\ ("Phonetic" \in {lastCall.steps[i] : i \in 1 .. Len(lastCall.steps)}
          => lastCall.phonetic # PHONETIC_DESABLED)
    /\ \A i, j \in 1 .. Len(lastCall.out) :
          i < j => Rank(lastCall.out[i].by) <= Rank(lastCall.out[j].by)

\* A later token of a query gets tokens of all three expanders.
C1_Witness ==
  /\ lastCall.kind = "Default"
  /\ nCalls >= 2
  /\ lastCall.steps = <<"Synonym", "Phonetic", "Stemmer">>
  /\ {lastCall.out[i].by : i \in 1 .. Len(lastCall.out)}
       = {"Synonym", "Phonetic", "Stemmer"}

StepsOf(call) == {call.steps[i] : i \in 1 .. Len(call.steps)}

\* C2: with the phonetic option force-enabled or force-disabled, a call of
\* DefaultExpander::Expand whose mask selects no phonetic field returns the
\* validation error, sets the error status and runs neither Phonetic nor
\* Stemmer; a call whose mask selects a phonetic field returns success.
C2_ForcedValidation ==
  (lastCall.kind = "Default" /\ Forced(lastCall.phonetic)) =>
    IF ~SelectedPhonetic(lastCall.fieldMask)
    THEN /\ lastCall.ret = REDISMODULE_ERR
         /\ lastCall.setError /\ status = "QUERY_EINVAL"
         /\ StepsOf(lastCall) \cap {"Phonetic", "Stemmer"} = {}
    ELSE lastCall.ret = REDISMODULE_OK

\* C3: with the default phonetic option, DefaultExpander::Expand sets no
\* validation error, runs Phonetic exactly when a phonetic field of the
\* index is selected by the mask, and runs Synonym and Stemmer either way.
C3_DefaultGating ==
  (lastCall.kind = "Default" /\ lastCall.phonetic = PHONETIC_DEFAULT) =>
    /\ lastCall.ret # REDISMODULE_ERR
    /\ ~lastCall.setError
    /\ ("Phonetic" \in StepsOf(lastCall)) <=> SelectedPhonetic(lastCall.fieldMask)
    /\ {"Synonym", "Stemmer"} \subseteq StepsOf(lastCall)

\* The index has a phonetic field, the mask selects none: Phonetic is skipped
\* and the call succeeds with the other two steps.
C3_Witness ==
  /\ lastCall.kind = "Default"
  /\ lastCall.phonetic = PHONETIC_DEFAULT
  /\ sctx_spec.hasPhonetic
  /\ ~SelectedPhonetic(lastCall.fieldMask)
  /\ lastCall.steps = <<"Synonym", "Stemmer">>
  /\ lastCall.ret = REDISMODULE_OK

\* C4 as claimed: the stemmer adds the marked stem and, exactly when the stem
\* differs from the token, the original token text as the second token.
C4_SecondIsOriginal ==
  lastCall.gotStem =>
    /\ Len(StemAdded) >= 1
    /\ StemAdded[1].str = <<STEM_PREFIX>> \o lastCall.stemmed
    /\ IF lastCall.stemmed = lastCall.token
       THEN Len(StemAdded) = 1
       ELSE Len(StemAdded) = 2 /\ StemAdded[2].str = lastCall.token

\* C4 (amended): when the stemmer of a non-Chinese language yields a stem, the
\* stemmer step adds the stem behind the one-byte marker and, exactly when
\* the stem differs from the token's text, the stem without the marker as
\* the second token: one token when stem and text are equal, two otherwise,
\* the second being the bare stem.  When it yields no stem nothing is added.
C4_SecondIsBareStem ==
  /\ lastCall.gotStem =>
       /\ Len(StemAdded) >= 1
       /\ StemAdded[1].str = <<STEM_PREFIX>> \o lastCall.stemmed
       /\ IF lastCall.stemmed = lastCall.token
          THEN Len(StemAdded) = 1
          ELSE Len(StemAdded) = 2 /\ StemAdded[2].str = lastCall.stemmed
  /\ (lastCall.stemHandle # 0 /\ ~lastCall.gotStem) => StemAdded = <<>>

\* A token whose stem has the token's length and another text got two tokens.
C4_Witness ==
  /\ lastCall.gotStem
  /\ lastCall.stemmed # lastCall.token
  /\ Len(lastCall.stemmed) = Len(lastCall.token)
  /\ Len(StemAdded) = 2

\* C5: a Chinese query never creates or invokes the snowball stemmer, and a
\* query of another language never creates or starts the Chinese tokenizer.
C5_LanguageRouting ==
  /\ language = RS_LANG_CHINESE => counts.sbNew = 0 /\ counts.sbStem = 0
  /\ language # RS_LANG_CHINESE =>
       counts.tokNew = 0 /\ counts.tokStart = 0 /\ ~tokenizer

\* Several tokens of a non-Chinese query were stemmed.
C5_Witness ==
  /\ language # RS_LANG_CHINESE
  /\ nCalls >= 2
  /\ counts.sbStem >= 2

RECURSIVE GCD(_, _)
GCD(a, b) == IF b = 0 THEN a ELSE GCD(b, a % b)

Inf == <<1, 0>>
NaN == <<0, 0>>
Frac(n, d) ==
  IF d = 0 THEN (IF n = 0 THEN NaN ELSE Inf)
  ELSE LET g == GCD(n, d) IN <<n \div g, d \div g>>

I(n) == <<n, 1>>
FAdd(a, b) == Frac(a[1] * b[2] + b[1] * a[2], a[2] * b[2])
FMul(a, b) == Frac(a[1] * b[1], a[2] * b[2])
FDiv(a, b) == Frac(a[1] * b[2], a[2] * b[1])
\* a < b; false when a is +inf or NaN, as for doubles.
FLess(a, b) == a[1] * b[2] < b[1] * a[2]
\* The MAX macro of sys/param.h: ((a) > (b) ? (a) : (b)).
MAX(a, b) == IF FLess(b, a) THEN a ELSE b

(***************************************************************************)
(* Scorers: the result tree.  A node has kind, weight, freq, term (hasTerm *)
(* and idf), offsets and children; the composite kinds are Aggregate and   *)
(* its subclasses Intersect and Union.                                     *)
(***************************************************************************)
\* Nodes of a result tree.
MaxNodes == 3

NoResult == [kind |-> "none"]

Leaf(kind, weight, freq, hasTerm, idf, offsets) ==
  [kind |-> kind, weight |-> weight, freq |-> freq, hasTerm |-> hasTerm,
   idf |-> idf, offsets |-> offsets, children |-> <<>>]

\* The leaves the trees are built from.
Leaves ==
  { Leaf("Term", 2, 1, TRUE, 3, <<1, 4>>),
    Leaf("Term", 1, 3, FALSE, 0, <<5>>),
    Leaf("Virtual", 2, 2, FALSE, 0, <<2, 4>>),
    Leaf("Virtual", 1, 0, FALSE, 0, <<3, 3>>) }

CompositeKinds == {"Aggregate", "Intersect", "Union"}
CompositeWeights == {1, 2}

IsComposite(r) == r.kind \in CompositeKinds

Composite(kind, weight, children) ==
  [kind |-> kind, weight |-> weight,
   freq |-> 0, hasTerm |-> FALSE, idf |-> 0, offsets |-> <<>>,
   children |-> children]

RECURSIVE NodeCount(_)
NodeCount(r) ==
  LET RECURSIVE Sum(_)
      Sum(i) == IF i > Len(r.children) THEN 0
                ELSE NodeCount(r.children[i]) + Sum(i + 1)
  IN 1 + Sum(1)

\* The nodes of the tree r, r included.
RECURSIVE Nodes(_)
Nodes(r) ==
  {r} \cup UNION { Nodes(r.children[i]) : i \in 1 .. Len(r.children) }

\* score = 0; for each value: score += value.
RECURSIVE SumFrom(_, _, _)
SumFrom(vals, i, score) ==
  IF i > Len(vals) THEN score ELSE SumFrom(vals, i + 1, FAdd(score, vals[i]))

\* score = 0; for each value: score = MAX(score, value).
RECURSIVE MaxFrom(_, _, _)
MaxFrom(vals, i, score) ==
  IF i > Len(vals) THEN score ELSE MaxFrom(vals, i + 1, MAX(score, vals[i]))

(***************************************************************************)
(* Explain nodes.  The nodes created by new ScoreExplain are kept in a     *)
(* sequence, a pointer to a node being its place in the sequence.          *)
(***************************************************************************)
NULL == 0

\* The value of a pointer that is declared and never assigned (lines 94,
\* 282 and 304).
Uninitialised == -1

\* child->explain (line 197), a member of the result that no scoring step
\* assigns.
ChildExplain == -2

NewScoreExplain == [filled |-> FALSE, children |-> <<>>]

\* ScorerArgs::ScorerArgs: explain = bExplain ? new ScoreExplain : NULL.
ScorerArgs_heap(bExplain) == IF bExplain THEN <<NewScoreExplain>> ELSE <<>>

ScorerArgs_explain(bExplain) == IF bExplain THEN 1 ELSE NULL

\* EXPLAIN(fmt, ...): explain->explain(fmt, ...) when explain is set.  A
\* write through a pointer that is no node leaves the nodes as they are.
ScoreExplain_explain(heap, e) ==
  IF e \in DOMAIN heap THEN [heap EXCEPT ![e].filled = TRUE] ELSE heap

\* explain->children.clear().
Children_clear(heap, e) ==
  IF e \in DOMAIN heap THEN [heap EXCEPT ![e].children = <<>>] ELSE heap

\* explain->children.push_back(p).
Children_push_back(heap, e, p) ==
  IF e \in DOMAIN heap THEN [heap EXCEPT ![e].children = Append(@, p)]
  ELSE heap

\* ScorerArgs::CreateNewExplainParent (lines 64-70): explain becomes a new
\* node made from the former one, which is its only child.
CreateNewExplainParent(heap, e) ==
  IF e = NULL THEN [heap |-> heap, explain |-> NULL]
  ELSE [heap |-> Append(heap, [filled |-> FALSE, children |-> <<e>>]),
        explain |-> Len(heap) + 1]

(***************************************************************************)
(* TF-IDF.                                                                 *)
(***************************************************************************)
NORM_MAXFREQ == 1
NORM_DOCLEN == 2

RECURSIVE Node_TFIDFScorer(_)

TermResult_TFIDFScorer(r) ==
  LET idf == IF r.hasTerm THEN r.idf ELSE 0
  IN FMul(FMul(I(r.weight), I(r.freq)), I(idf))

AggregateResult_TFIDFScorer(r) ==
  LET vals == [i \in 1 .. Len(r.children) |-> Node_TFIDFScorer(r.children[i])]
  IN FMul(I(r.weight), SumFrom(vals, 1, I(0)))

IndexResult_TFIDFScorer(r) == FMul(I(r.weight), I(r.freq))

\* The virtual call r->TFIDFScorer(dmd, explain).
Node_TFIDFScorer(r) ==
  IF r.kind = "Term" THEN TermResult_TFIDFScorer(r)
  ELSE IF IsComposite(r) THEN AggregateResult_TFIDFScorer(r)
  ELSE IndexResult_TFIDFScorer(r)

\* TermResult::TFIDFScorer with explain set.
TermResult_TFIDFScorer_Explain(r, e, heap) ==
  [score |-> TermResult_TFIDFScorer(r), heap |-> ScoreExplain_explain(heap, e)]

\* AggregateResult::TFIDFScorer with explain set (lines 91-99): every child
\* is scored with the pointer exp, and exp is pushed.
AggregateResult_TFIDFScorer_Explain(r, e, heap) ==
  LET RECURSIVE Loop(_, _, _)
      Loop(i, score, h) ==
        IF i > Len(r.children) THEN [score |-> score, heap |-> h]
        ELSE Loop(i + 1, FAdd(score, Node_TFIDFScorer(r.children[i])),
                  Children_push_back(h, e, Uninitialised))
      l == Loop(1, I(0), Children_clear(heap, e))
  IN [score |-> FMul(I(r.weight), l.score),
      heap |-> ScoreExplain_explain(l.heap, e)]

\* IndexResult::TFIDFScorer(dmd, explain) with explain set.
IndexResult_TFIDFScorer_Explain(r, e, heap) ==
  [score |-> IndexResult_TFIDFScorer(r), heap |-> ScoreExplain_explain(heap, e)]

\* The virtual call r->TFIDFScorer(dmd, explain) with explain set.
Node_TFIDFScorer_Explain(r, e, heap) ==
  IF r.kind = "Term" THEN TermResult_TFIDFScorer_Explain(r, e, heap)
  ELSE IF IsComposite(r) THEN AggregateResult_TFIDFScorer_Explain(r, e, heap)
  ELSE IndexResult_TFIDFScorer_Explain(r, e, heap)

\* Lines 91-97 with explain set: each child is handed the uninitialised
\* pointer exp and writes its explanation through it.
TFIDF_Undefined(r, explain) == explain /\ IsComposite(r)

\* IndexResult::MinOffsetDelta: the smallest gap between adjacent offsets
\* anywhere in the tree, a gap of 0 (and a tree without gaps) counting as 1.
Gaps(r) ==
  UNION { { n.offsets[i + 1] - n.offsets[i] : i \in 1 .. (Len(n.offsets) - 1) }
          : n \in Nodes(r) }

MinOffsetDelta(r) ==
  LET g == Gaps(r) \ {0}
  IN IF g = {} \/ 0 \in Gaps(r) THEN 1
     ELSE CHOOSE m \in g : \A x \in g : m <= x

\* What a scorer call yields: the value returned, the raw score of the tree,
\* whether the tree was traversed and the slop computed, and whether an
\* undefined operation was executed on the way.
Scored(value, raw, traversed, slop, undefined) ==
  [value |-> value, raw |-> raw, traversed |-> traversed,
   slopComputed |-> slop, undefined |-> undefined]

\* The common TF-IDF function (lines 114-140) without the test of the
\* document score.
IndexResult_TFIDFScorer_NoZeroTest(r, explain, dmd, minScore, normMode) ==
  LET norm == IF normMode = NORM_MAXFREQ THEN dmd.maxFreq ELSE dmd.len
      rawTfidf == Node_TFIDFScorer(r)
      tfidf == FDiv(FMul(dmd.score, rawTfidf), I(norm))
      ub == TFIDF_Undefined(r, explain)
  IN IF FLess(tfidf, minScore) THEN Scored(I(0), rawTfidf, TRUE, FALSE, ub)
     ELSE Scored(FDiv(tfidf, I(MinOffsetDelta(r))), rawTfidf, TRUE, TRUE, ub)

\* IndexResult::TFIDFScorer(args, dmd, minScore, normMode), lines 114-140.
IndexResult_TFIDFScorer_top(r, explain, dmd, minScore, normMode) ==
  LET norm == IF normMode = NORM_MAXFREQ THEN dmd.maxFreq ELSE dmd.len
      rawTfidf ==
        IF explain
        THEN Node_TFIDFScorer_Explain(r, ScorerArgs_explain(TRUE),
                                      ScorerArgs_heap(TRUE)).score
        ELSE Node_TFIDFScorer(r)
      tfidf == FDiv(FMul(dmd.score, rawTfidf), I(norm))
      ub == TFIDF_Undefined(r, explain)
  IN IF dmd.score = I(0) THEN Scored(I(0), I(0), FALSE, FALSE, FALSE)
     ELSE IF FLess(tfidf, minScore)
          THEN Scored(I(0), rawTfidf, TRUE, FALSE, ub)
     ELSE Scored(FDiv(tfidf, I(MinOffsetDelta(r))), rawTfidf, TRUE, TRUE, ub)

TFIDFScorer(args, r, dmd, minScore) ==
  IndexResult_TFIDFScorer_top(r, args.explain, dmd, minScore, NORM_MAXFREQ)

TFIDFNormDocLenScorer(args, r, dmd, minScore) ==
  IndexResult_TFIDFScorer_top(r, args.explain, dmd, minScore, NORM_DOCLEN)

\* The explain nodes a call of lines 114-140 leaves: the nodes, args->explain
\* after the call, and the node handed to the scoring step of the result.
IndexResult_TFIDFScorer_explain(r, dmd) ==
  LET e == ScorerArgs_explain(TRUE)
      h0 == ScorerArgs_heap(TRUE)
      t == Node_TFIDFScorer_Explain(r, e, h0)
      p == CreateNewExplainParent(t.heap, e)
  IN IF dmd.score = I(0)
     THEN [heap |-> ScoreExplain_explain(h0, e), explain |-> e,
           result |-> NULL]
     ELSE [heap |-> ScoreExplain_explain(p.heap, p.explain),
           explain |-> p.explain, result |-> e]

(***************************************************************************)
(* BM25.                                                                   *)
(***************************************************************************)
b == <<1, 2>>
k1 == <<6, 5>>

\* f + k1 * (1.0f - b + b * avgDocLen), with 1 - b written as the fraction.
BM25Denominator(f, avgDocLen) ==
  FAdd(f, FMul(k1, FAdd(<<1, 2>>, FMul(b, avgDocLen))))

RECURSIVE Node_BM25Scorer(_, _)

TermResult_BM25Scorer(args, r) ==
  LET f == I(r.freq)
      idf == IF r.hasTerm THEN I(r.idf) ELSE I(0)
  IN FDiv(FMul(idf, f), BM25Denominator(f, args.avgDocLen))

AggregateResult_BM25Scorer(args, r) ==
  LET vals == [i \in 1 .. Len(r.children) |-> Node_BM25Scorer(args, r.children[i])]
  IN FMul(SumFrom(vals, 1, I(0)), I(r.weight))

IndexResult_BM25Scorer(args, r) ==
  LET f == I(r.freq)
  IN IF r.freq # 0
     THEN FDiv(FMul(I(r.weight), f), BM25Denominator(f, args.avgDocLen))
     ELSE I(0)

\* The virtual call r->BM25Scorer(args, dmd).
Node_BM25Scorer(args, r) ==
  IF r.kind = "Term" THEN TermResult_BM25Scorer(args, r)
  ELSE IF IsComposite(r) THEN AggregateResult_BM25Scorer(args, r)
  ELSE IndexResult_BM25Scorer(args, r)

RECURSIVE Node_BM25Scorer_Explain(_, _, _, _)

\* TermResult::BM25Scorer with args->explain set.
TermResult_BM25Scorer_Explain(args, r, e, heap) ==
  [score |-> TermResult_BM25Scorer(args, r),
   heap |-> ScoreExplain_explain(heap, e)]

\* AggregateResult::BM25Scorer with args->explain set (lines 194-199): every
\* child explains into args->explain, and child->explain is pushed.
AggregateResult_BM25Scorer_Explain(args, r, e, heap) ==
  LET RECURSIVE Loop(_, _, _)
      Loop(i, score, h) ==
        IF i > Len(r.children) THEN [score |-> score, heap |-> h]
        ELSE LET c == Node_BM25Scorer_Explain(args, r.children[i], e, h)
             IN Loop(i + 1, FAdd(score, c.score),
                     Children_push_back(c.heap, e, ChildExplain))
      l == Loop(1, I(0), Children_clear(heap, e))
  IN [score |-> FMul(l.score, I(r.weight)),
      heap |-> ScoreExplain_explain(l.heap, e)]

\* IndexResult::BM25Scorer with args->explain set: both branches explain.
IndexResult_BM25Scorer_Explain(args, r, e, heap) ==
  [score |-> IndexResult_BM25Scorer(args, r),
   heap |-> ScoreExplain_explain(heap, e)]

\* The virtual call r->BM25Scorer(args, dmd) with args->explain set.
Node_BM25Scorer_Explain(args, r, e, heap) ==
  IF r.kind = "Term" THEN TermResult_BM25Scorer_Explain(args, r, e, heap)
  ELSE IF IsComposite(r)
       THEN AggregateResult_BM25Scorer_Explain(args, r, e, heap)
  ELSE IndexResult_BM25Scorer_Explain(args, r, e, heap)

\* BM25Scorer with the threshold compared after the division by the slop.
BM25Scorer_SlopFirst(args, r, dmd, minScore) ==
  LET bm25res == Node_BM25Scorer(args, r)
      score == FDiv(FMul(dmd.score, bm25res), I(MinOffsetDelta(r)))
  IN IF FLess(score, minScore) THEN Scored(I(0), bm25res, TRUE, TRUE, FALSE)
     ELSE Scored(score, bm25res, TRUE, TRUE, FALSE)

\* BM25Scorer, lines 228-246.
BM25Scorer(args, r, dmd, minScore) ==
  LET bm25res ==
        IF args.explain
        THEN Node_BM25Scorer_Explain(args, r, ScorerArgs_explain(TRUE),
                                     ScorerArgs_heap(TRUE)).score
        ELSE Node_BM25Scorer(args, r)
      score == FMul(dmd.score, bm25res)
  IN IF FLess(score, minScore) THEN Scored(I(0), bm25res, TRUE, FALSE, FALSE)
     ELSE Scored(FDiv(score, I(MinOffsetDelta(r))), bm25res, TRUE, TRUE, FALSE)

\* The explain nodes a call of BM25Scorer leaves.
BM25Scorer_explain(args, r) ==
  LET e == ScorerArgs_explain(TRUE)
      t == Node_BM25Scorer_Explain(args, r, e, ScorerArgs_heap(TRUE))
      p == CreateNewExplainParent(t.heap, e)
  IN [heap |-> ScoreExplain_explain(p.heap, p.explain),
      explain |-> p.explain, result |-> e]

(***************************************************************************)
(* Raw document score and DISMAX.                                          *)
(***************************************************************************)
DocScoreScorer(args, r, dmd, minScore) ==
  Scored(dmd.score, I(0), FALSE, FALSE, FALSE)

\* The explain nodes a call of DocScoreScorer leaves.
DocScoreScorer_explain ==
  [heap |-> ScoreExplain_explain(ScorerArgs_heap(TRUE), ScorerArgs_explain(TRUE)),
   explain |-> ScorerArgs_explain(TRUE), result |-> NULL]

RECURSIVE Node_DisMaxScorer(_)

IndexResult_DisMaxScorer(r) == FMul(I(r.weight), I(r.freq))

IntersectResult_DisMaxScorer(r) ==
  LET vals == [i \in 1 .. Len(r.children) |-> Node_DisMaxScorer(r.children[i])]
  IN FMul(I(r.weight), SumFrom(vals, 1, I(0)))

\* UnionResult::DisMaxScorer adding the children up.
UnionResult_DisMaxScorer_Sum(r) ==
  LET vals == [i \in 1 .. Len(r.children) |-> Node_DisMaxScorer(r.children[i])]
  IN FMul(I(r.weight), SumFrom(vals, 1, I(0)))

UnionResult_DisMaxScorer(r) ==
  LET vals == [i \in 1 .. Len(r.children) |-> Node_DisMaxScorer(r.children[i])]
  IN FMul(I(r.weight), MaxFrom(vals, 1, I(0)))

\* The virtual call r->DisMaxScorer(args): Intersect and Union override the
\* method of IndexResult, the other kinds inherit it.
Node_DisMaxScorer(r) ==
  IF r.kind = "Intersect" THEN IntersectResult_DisMaxScorer(r)
  ELSE IF r.kind = "Union" THEN UnionResult_DisMaxScorer(r)
  ELSE IndexResult_DisMaxScorer(r)

RECURSIVE Node_DisMaxScorer_Explain(_, _, _)

\* IndexResult::DisMaxScorer with args->explain set.
IndexResult_DisMaxScorer_Explain(r, e, heap) ==
  [score |-> IndexResult_DisMaxScorer(r),
   heap |-> ScoreExplain_explain(heap, e)]

\* IntersectResult::DisMaxScorer with args->explain set (lines 280-286): in
\* the loop explain is the inner pointer, which is pushed to its own
\* children; every child explains into args->explain.
IntersectResult_DisMaxScorer_Explain(r, e, heap) ==
  LET RECURSIVE Loop(_, _, _)
      Loop(i, score, h) ==
        IF i > Len(r.children) THEN [score |-> score, heap |-> h]
        ELSE LET c == Node_DisMaxScorer_Explain(r.children[i], e, h)
             IN Loop(i + 1, FAdd(score, c.score),
                     Children_push_back(c.heap, Uninitialised, Uninitialised))
      l == Loop(1, I(0), Children_clear(heap, e))
  IN [score |-> FMul(I(r.weight), l.score),
      heap |-> ScoreExplain_explain(l.heap, e)]

\* UnionResult::DisMaxScorer with args->explain set (lines 302-308): exp is
\* pushed to the children of args->explain.
UnionResult_DisMaxScorer_Explain(r, e, heap) ==
  LET RECURSIVE Loop(_, _, _)
      Loop(i, score, h) ==
        IF i > Len(r.children) THEN [score |-> score, heap |-> h]
        ELSE LET c == Node_DisMaxScorer_Explain(r.children[i], e, h)
             IN Loop(i + 1, MAX(score, c.score),
                     Children_push_back(c.heap, e, Uninitialised))
      l == Loop(1, I(0), Children_clear(heap, e))
  IN [score |-> FMul(I(r.weight), l.score),
      heap |-> ScoreExplain_explain(l.heap, e)]

\* The virtual call r->DisMaxScorer(args) with args->explain set.
Node_DisMaxScorer_Explain(r, e, heap) ==
  IF r.kind = "Intersect" THEN IntersectResult_DisMaxScorer_Explain(r, e, heap)
  ELSE IF r.kind = "Union" THEN UnionResult_DisMaxScorer_Explain(r, e, heap)
  ELSE IndexResult_DisMaxScorer_Explain(r, e, heap)

\* Lines 282-284 with explain set: children.push_back is called through the
\* uninitialised inner pointer explain, in every Intersect node the call
\* reaches.
RECURSIVE DisMax_Undefined(_, _)
DisMax_Undefined(r, explain) ==
  /\ explain
  /\ r.kind \in {"Intersect", "Union"}
  /\ \/ r.kind = "Intersect"
     \/ \E i \in 1 .. Len(r.children) : DisMax_Undefined(r.children[i], explain)

DisMaxScorer(args, r, dmd, minScore) ==
  LET v == IF args.explain
           THEN Node_DisMaxScorer_Explain(r, ScorerArgs_explain(TRUE),
                                          ScorerArgs_heap(TRUE)).score
           ELSE Node_DisMaxScorer(r)
  IN Scored(v, v, TRUE, FALSE, DisMax_Undefined(r, args.explain))

\* The explain nodes a call of DisMaxScorer leaves.
DisMaxScorer_explain(r) ==
  LET e == ScorerArgs_explain(TRUE)
      t == Node_DisMaxScorer_Explain(r, e, ScorerArgs_heap(TRUE))
  IN [heap |-> t.heap, explain |-> e, result |-> e]

(***************************************************************************)
(* Scoring one document: the result tree is built, then scored.            *)
(***************************************************************************)
DEFAULT_SCORER_NAME == "TFIDF"
TFIDF_DOCNORM_SCORER_NAME == "TFIDF.DOCNORM"
BM25_SCORER_NAME == "BM25"
DISMAX_SCORER_NAME == "DISMAX"
DOCSCORE_SCORER_NAME == "DOCSCORE"
TreeScorers == {DEFAULT_SCORER_NAME, TFIDF_DOCNORM_SCORER_NAME,
                BM25_SCORER_NAME, DISMAX_SCORER_NAME, DOCSCORE_SCORER_NAME}

\* The documents scored (score, maxFreq, len) with the index's avgDocLen.
Documents ==
  { [score |-> I(0), maxFreq |-> 0, len |-> 2, avgDocLen |-> <<1, 1>>],
    [score |-> <<1, 2>>, maxFreq |-> 2, len |-> 3, avgDocLen |-> <<5, 2>>],
    [score |-> I(2), maxFreq |-> 1, len |-> 0, avgDocLen |-> <<1, 1>>] }

MinScores == {I(1), I(4)}

\* The registered scoring function of a name.
CallScorer(name, args, r, dmd, minScore) ==
  IF name = DEFAULT_SCORER_NAME THEN TFIDFScorer(args, r, dmd, minScore)
  ELSE IF name = TFIDF_DOCNORM_SCORER_NAME
       THEN TFIDFNormDocLenScorer(args, r, dmd, minScore)
  ELSE IF name = BM25_SCORER_NAME THEN BM25Scorer(args, r, dmd, minScore)
  ELSE IF name = DISMAX_SCORER_NAME THEN DisMaxScorer(args, r, dmd, minScore)
  ELSE DocScoreScorer(args, r, dmd, minScore)

\* No explain node: explanation was not requested.
NoExplain == [heap |-> <<>>, explain |-> NULL, result |-> NULL]

\* The explain nodes the registered scoring function of a name leaves when
\* explanation is requested.
CallScorer_explain(name, args, r, dmd) ==
  IF ~args.explain THEN NoExplain
  ELSE IF name = DEFAULT_SCORER_NAME \/ name = TFIDF_DOCNORM_SCORER_NAME
       THEN IndexResult_TFIDFScorer_explain(r, dmd)
  ELSE IF name = BM25_SCORER_NAME THEN BM25Scorer_explain(args, r)
  ELSE IF name = DISMAX_SCORER_NAME THEN DisMaxScorer_explain(r)
  ELSE DocScoreScorer_explain

IdleExp ==
  /\ sctx_spec = [fields |-> [i \in 1 .. NumFields |-> FALSE],
                  hasPhonetic |-> FALSE, smap |-> FALSE]
  /\ language = "english"
  /\ expander = DEFAULT_EXPANDER_NAME
  /\ privdata = NullPriv
  /\ tokenizer = FALSE
  /\ tokens = <<>>
  /\ status = "OK"
  /\ phase = "expanding"
  /\ nCalls = 0
  /\ counts = ZeroCounts
  /\ lastCall = NoCall

InitScore == IdleExp /\ IdleScore /\ IdleHamming

\* The query executor yields a leaf result.
NewLeaf ==
  /\ result = NoResult
  /\ scored.scorer = "none"
  /\ \E l \in Leaves : result' = l
  /\ scored' = [scorer |-> "none"]
  /\ UNCHANGED <<expVars, hamVars>>

\* The result becomes the only child of a new composite result.
Wrap ==
  /\ result # NoResult
  /\ scored.scorer = "none"
  /\ NodeCount(result) < MaxNodes
  /\ \E kind \in CompositeKinds, w \in CompositeWeights :
       result' = Composite(kind, w, <<result>>)
  /\ scored' = [scorer |-> "none"]
  /\ UNCHANGED <<expVars, hamVars>>

\* A composite result gets one more child.
AddChild ==
  /\ result # NoResult
  /\ scored.scorer = "none"
  /\ IsComposite(result)
  /\ NodeCount(result) < MaxNodes
  /\ \E l \in Leaves : result' = [result EXCEPT !.children = Append(@, l)]
  /\ scored' = [scorer |-> "none"]
  /\ UNCHANGED <<expVars, hamVars>>

\* The result is scored once by a registered scorer.  A call that executed an
\* undefined operation either crashes or goes on to return its value.
Score ==
  /\ result # NoResult
  /\ scored.scorer = "none"
  /\ \E name \in TreeScorers, doc \in Documents, minScore \in MinScores,
        explain \in BOOLEAN :
       LET args == [avgDocLen |-> doc.avgDocLen, explain |-> explain]
           dmd == [score |-> doc.score, maxFreq |-> doc.maxFreq, len |-> doc.len]
           s == CallScorer(name, args, result, dmd, minScore)
       IN \E outcome \in (IF s.undefined THEN {"crash", "return"} ELSE {"return"}) :
            scored' = [scorer |-> name, args |-> args, dmd |-> dmd,
                       minScore |-> minScore, returned |-> (outcome = "return"),
                       value |-> IF outcome = "return" THEN s.value ELSE NaN,
                       raw |-> s.raw, traversed |-> s.traversed,
                       slopComputed |-> s.slopComputed,
                       explain |-> IF outcome = "return"
                                   THEN CallScorer_explain(name, args, result, dmd)
                                   ELSE NoExplain]
  /\ UNCHANGED <<result, expVars, hamVars>>

\* A call that returned is followed by the next document's result.
NextDocument ==
  /\ scored.scorer # "none"
  /\ scored.returned
  /\ result' = NoResult
  /\ scored' = [scorer |-> "none"]
  /\ UNCHANGED <<expVars, hamVars>>

NextScore == NewLeaf \/ Wrap \/ AddChild \/ Score \/ NextDocument

SpecScore == InitScore /\ [][NextScore]_vars

(***************************************************************************)
(* HAMMING: the scorer of the payloads.                                    *)
(***************************************************************************)
\* Bytes of a payload.
MaxPayloadLen == 2

\* The bytes the payloads are built from.
ByteSamples == {0, 15, 170, 255}

bitsinbyte ==
  << 0, 1, 1, 2, 1, 2, 2, 3, 1, 2, 2, 3, 2, 3, 3, 4, 1, 2, 2, 3, 2, 3, 3, 4, 2, 3, 3, 4, 3, 4, 4, 5,
     1, 2, 2, 3, 2, 3, 3, 4, 2, 3, 3, 4, 3, 4, 4, 5, 2, 3, 3, 4, 3, 4, 4, 5, 3, 4, 4, 5, 4, 5, 5, 6,
     1, 2, 2, 3, 2, 3, 3, 4, 2, 3, 3, 4, 3, 4, 4, 5, 2, 3, 3, 4, 3, 4, 4, 5, 3, 4, 4, 5, 4, 5, 5, 6,
     2, 3, 3, 4, 3, 4, 4, 5, 3, 4, 4, 5, 4, 5, 5, 6, 3, 4, 4, 5, 4, 5, 5, 6, 4, 5, 5, 6, 5, 6, 6, 7,
     1, 2, 2, 3, 2, 3, 3, 4, 2, 3, 3, 4, 3, 4, 4, 5, 2, 3, 3, 4, 3, 4, 4, 5, 3, 4, 4, 5, 4, 5, 5, 6,
     2, 3, 3, 4, 3, 4, 4, 5, 3, 4, 4, 5, 4, 5, 5, 6, 3, 4, 4, 5, 4, 5, 5, 6, 4, 5, 5, 6, 5, 6, 6, 7,
     2, 3, 3, 4, 3, 4, 4, 5, 3, 4, 4, 5, 4, 5, 5, 6, 3, 4, 4, 5, 4, 5, 5, 6, 4, 5, 5, 6, 5, 6, 6, 7,
     3, 4, 4, 5, 4, 5, 5, 6, 4, 5, 5, 6, 5, 6, 6, 7, 4, 5, 5, 6, 5, 6, 6, 7, 5, 6, 6, 7, 6, 7, 7, 8 >>

\* a ^ b on the low n bits.
RECURSIVE BitXor(_, _, _)
BitXor(x, y, n) ==
  IF n = 0 THEN 0
  ELSE (((x % 2) + (y % 2)) % 2) + 2 * BitXor(x \div 2, y \div 2, n - 1)

\* The loop of lines 354-356 from index i on.
RECURSIVE CountBits(_, _, _, _, _)
CountBits(a, bb, len, i, nbits) ==
  IF i > len THEN nbits
  ELSE CountBits(a, bb, len, i + 1,
                 nbits + bitsinbyte[BitXor(a[i], bb[i], 8) + 1])

\* HammingDistanceScorer returning 0 below minScore, as TF-IDF and BM25 do.
HammingDistanceScorer_Pruned(args, h, dmd, minScore) ==
  LET len == Len(args.payload)
      nbits == CountBits(args.payload, dmd.payload.data, len, 1, 0)
  IN IF ~dmd.payload.present \/ Len(dmd.payload.data) = 0
        \/ Len(dmd.payload.data) # Len(args.payload)
     THEN I(0)
     ELSE IF FLess(Frac(1, nbits + 1), minScore) THEN I(0)
     ELSE Frac(1, nbits + 1)

\* HammingDistanceScorer, lines 341-362.
HammingDistanceScorer(args, h, dmd, minScore) ==
  LET len == Len(args.payload)
      nbits == CountBits(args.payload, dmd.payload.data, len, 1, 0)
  IN IF ~dmd.payload.present \/ Len(dmd.payload.data) = 0
        \/ Len(dmd.payload.data) # Len(args.payload)
     THEN I(0)
     ELSE Frac(1, nbits + 1)

InitHamming == IdleExp /\ IdleScore /\ IdleHamming

\* The document is stored with a payload, empty so far.
DocPayloadPresent ==
  /\ ~hamming.done
  /\ ~docPayload.present
  /\ docPayload' = [present |-> TRUE, data |-> <<>>]
  /\ UNCHANGED <<argPayload, hamming, expVars, scoreVars>>

\* One more byte of the document's payload.
DocPayloadByte ==
  /\ ~hamming.done
  /\ docPayload.present
  /\ Len(docPayload.data) < MaxPayloadLen
  /\ \E x \in ByteSamples : docPayload' = [docPayload EXCEPT !.data = Append(@, x)]
  /\ UNCHANGED <<argPayload, hamming, expVars, scoreVars>>

\* One more byte of the query's payload.
ArgPayloadByte ==
  /\ ~hamming.done
  /\ Len(argPayload) < MaxPayloadLen
  /\ \E x \in ByteSamples : argPayload' = Append(argPayload, x)
  /\ UNCHANGED <<docPayload, hamming, expVars, scoreVars>>

\* The document is scored against the query's payload.
HammingScore ==
  /\ ~hamming.done
  /\ \E h \in Leaves, minScore \in MinScores, explain \in BOOLEAN :
       LET args == [payload |-> argPayload, explain |-> explain]
           dmd == [payload |-> docPayload]
       IN hamming' = [done |-> TRUE, h |-> h, minScore |-> minScore,
                      explain |-> explain,
                      value |-> HammingDistanceScorer(args, h, dmd, minScore)]
  /\ UNCHANGED <<docPayload, argPayload, expVars, scoreVars>>

\* The next document and query.
HammingNext ==
  /\ hamming.done
  /\ hamming' = [done |-> FALSE]
  /\ docPayload' = [present |-> FALSE, data |-> <<>>]
  /\ argPayload' = <<>>
  /\ UNCHANGED <<expVars, scoreVars>>

NextHamming ==
  DocPayloadPresent \/ DocPayloadByte \/ ArgPayloadByte \/ HammingScore
    \/ HammingNext

SpecHamming == InitHamming /\ [][NextHamming]_vars

(***************************************************************************)
(* Properties of the scorers.                                              *)
(***************************************************************************)
TFIDFNames == {DEFAULT_SCORER_NAME, TFIDF_DOCNORM_SCORER_NAME}

\* The contribution of node n to the raw score of the scorer called.
Contribution(n) ==
  IF scored.scorer \in TFIDFNames THEN Node_TFIDFScorer(n)
  ELSE IF scored.scorer = BM25_SCORER_NAME THEN Node_BM25Scorer(scored.args, n)
  ELSE Node_DisMaxScorer(n)

\* The contributions of the children of n.
ChildValues(n) == { Contribution(n.children[i]) : i \in 1 .. Len(n.children) }

\* The sum of the contributions of the children of n.
RECURSIVE ChildTotal(_, _)
ChildTotal(n, i) ==
  IF i = 0 THEN I(0)
  ELSE FAdd(ChildTotal(n, i - 1), Contribution(n.children[i]))

\* The greatest contribution of a child of n.
ChildMaximum(n) ==
  CHOOSE v \in ChildValues(n) : \A w \in ChildValues(n) : ~FLess(v, w)

\* C7: in a scoring call that traversed the tree and returned, the raw score
\* is the root's contribution, and every composite node contributes its
\* weight times the maximum of its children's contributions (Union under
\* DISMAX), or its weight times their sum (Intersect under DISMAX; Aggregate,
\* Intersect and Union under TF-IDF and BM25).
C7_CompositeContribution ==
  (/\ scored.scorer \in TFIDFNames \cup {BM25_SCORER_NAME, DISMAX_SCORER_NAME}
   /\ scored.returned /\ scored.traversed) =>
    /\ scored.raw = Contribution(result)
    /\ \A n \in Nodes(result) :
         IsComposite(n) =>
           IF scored.scorer = DISMAX_SCORER_NAME /\ n.kind = "Union"
           THEN Contribution(n) = FMul(I(n.weight), ChildMaximum(n))
           ELSE IF scored.scorer = DISMAX_SCORER_NAME /\ n.kind = "Aggregate"
           THEN TRUE
           ELSE Contribution(n)
                  = FMul(I(n.weight), ChildTotal(n, Len(n.children)))

\* DISMAX scored a Union of weight 2 whose two children contribute differently.
C7_Witness ==
  /\ scored.scorer = DISMAX_SCORER_NAME
  /\ scored.returned
  /\ result.kind = "Union"
  /\ result.weight = 2
  /\ Len(result.children) = 2
  /\ Cardinality(ChildValues(result)) = 2
  /\ scored.value = FMul(I(2), ChildMaximum(result))

\* C8: a TF-IDF call on a document of non-zero score and a BM25 call return 0
\* when the score before the proximity step (document score * raw score /
\* norm for TF-IDF, document score * raw score for BM25) is below minScore,
\* and else that score divided by the tree's minimal offset delta; the delta
\* is computed only when the call was not pruned.
C8_ThresholdThenSlop ==
  (/\ scored.scorer \in TFIDFNames \cup {BM25_SCORER_NAME}
   /\ scored.returned
   /\ ~(scored.scorer \in TFIDFNames /\ scored.dmd.score = I(0))) =>
    LET norm == IF scored.scorer = DEFAULT_SCORER_NAME
                THEN scored.dmd.maxFreq ELSE scored.dmd.len
        raw == Contribution(result)
        pre == IF scored.scorer = BM25_SCORER_NAME
               THEN FMul(scored.dmd.score, raw)
               ELSE FDiv(FMul(scored.dmd.score, raw), I(norm))
    IN IF FLess(pre, scored.minScore)
       THEN scored.value = I(0) /\ ~scored.slopComputed
       ELSE /\ scored.value = FDiv(pre, I(MinOffsetDelta(result)))
            /\ scored.slopComputed

\* BM25 returned a score that was divided by a delta greater than 1.
C8_Witness ==
  /\ scored.scorer = BM25_SCORER_NAME
  /\ scored.returned
  /\ scored.slopComputed
  /\ MinOffsetDelta(result) > 1
  /\ scored.value # I(0)
  /\ scored.value = FDiv(FMul(scored.dmd.score, Contribution(result)),
                         I(MinOffsetDelta(result)))

\* C9: both TF-IDF scorers return exactly 0 for a document whose score is 0,
\* whatever the tree, minScore and the norm, without traversing the tree.
C9_ZeroDocScore ==
  (scored.scorer \in TFIDFNames /\ scored.dmd.score = I(0)) =>
    /\ scored.returned
    /\ scored.value = I(0)
    /\ ~scored.traversed
    /\ ~scored.slopComputed

\* TF-IDF scored a composite tree with contributions for a document of
\* score 0 whose norm is 0.
C9_Witness ==
  /\ scored.scorer = DEFAULT_SCORER_NAME
  /\ scored.dmd.score = I(0)
  /\ scored.dmd.maxFreq = 0
  /\ IsComposite(result)
  /\ Node_TFIDFScorer(result) # I(0)
  /\ scored.value = I(0)

\* The bits in which the bytes x and y differ.
DiffBits(x, y) ==
  Cardinality({ k \in 0 .. 7 : ((x \div (2 ^ k)) % 2) # ((y \div (2 ^ k)) % 2) })

\* The bit positions in which two buffers of one length differ.
RECURSIVE Distance(_, _, _)
Distance(a, bb, i) ==
  IF i = 0 THEN 0 ELSE Distance(a, bb, i - 1) + DiffBits(a[i], bb[i])

\* C10: the Hamming scorer returns 0 when the document's payload is absent,
\* empty or of another length than the query's, and else 1 / (d + 1) for the
\* d bit positions in which the payloads differ, whatever the result tree
\* and minScore: 1 for equal payloads, 1/9 for the bytes 0x00 and 0xFF.
C10_Hamming ==
  hamming.done =>
    /\ IF \/ ~docPayload.present
          \/ Len(docPayload.data) = 0
          \/ Len(docPayload.data) # Len(argPayload)
       THEN hamming.value = I(0)
       ELSE hamming.value
              = Frac(1, Distance(argPayload, docPayload.data, Len(argPayload)) + 1)
    /\ (docPayload.present /\ docPayload.data # <<>>
          /\ docPayload.data = argPayload) => hamming.value = I(1)
    /\ (docPayload.present /\ docPayload.data = <<0>> /\ argPayload = <<255>>)
          => hamming.value = <<1, 9>>

\* The payloads 0x00 and 0xFF were scored 1/9 under a minScore of 4.
C10_Witness ==
  /\ hamming.done
  /\ docPayload.present
  /\ docPayload.data = <<0>>
  /\ argPayload = <<255>>
  /\ hamming.minScore = I(4)
  /\ hamming.value = <<1, 9>>


(***************************************************************************)
(* Explanation.                                                            *)
(***************************************************************************)
\* The call that was made, with explanation disabled.
WithoutExplain ==
  CallScorer(scored.scorer, [scored.args EXCEPT !.explain = FALSE], result,
             scored.dmd, scored.minScore)

\* C11: a call with explanation requested returns the score that the same
\* scorer returns for the same result, document and minScore with
\* explanation disabled.
C11_ExplainSameScore ==
  (scored.scorer # "none" /\ scored.args.explain) =>
    /\ scored.returned
    /\ scored.value = WithoutExplain.value

\* The explain node e has the shape of the result r: it is a node that was
\* filled, with one child per child of r, each of the shape of that child.
RECURSIVE Mirrors(_, _, _)
Mirrors(heap, e, r) ==
  /\ e \in DOMAIN heap
  /\ heap[e].filled
  /\ Len(heap[e].children) = Len(r.children)
  /\ \A i \in 1 .. Len(r.children) :
       Mirrors(heap, heap[e].children[i], r.children[i])

\* No node is the child of two nodes, twice the child of one, or its own
\* child.
SingleParent(heap) ==
  \A e1 \in DOMAIN heap, e2 \in DOMAIN heap :
    \A i \in 1 .. Len(heap[e1].children), j \in 1 .. Len(heap[e2].children) :
      LET c == heap[e1].children[i]
      IN c \in DOMAIN heap =>
           /\ c # e1
           /\ (c = heap[e2].children[j] => (e1 = e2 /\ i = j))

\* C12: after a call with explanation requested that scored the result tree,
\* the explain node of the result has the shape of the result tree, every
\* child being a node of its own filled by the scoring step of that child,
\* and no explain node has two parents or is its own child.
C12_ExplainMirrorsResult ==
  ( /\ scored.scorer # "none"
    /\ scored.args.explain
    /\ scored.returned
    /\ scored.explain.result # NULL ) =>
    /\ Mirrors(scored.explain.heap, scored.explain.result, result)
    /\ SingleParent(scored.explain.heap)

====
